---- MODULE Spec2Model ----
(***************************************************************************)
(* Model of snapshot.py: main() builds a WebSnapshot (which opens a        *)
(* headless browser session), runs capture_screenshot(url) once and closes *)
(* the session in a finally block.                                         *)
(*                                                                         *)
(* The browser is the environment.  Every WebDriver call ends in one of    *)
(* three ways: it returns ("ok"), it raises selenium's TimeoutException    *)
(* ("timeout"), or it raises some other exception ("error").  Values the   *)
(* browser reports (scroll heights, page sizes, current URL) are drawn     *)
(* from small sets at every call.                                          *)
(*                                                                         *)
(* Python's None is the empty sequence <<>>; an optional integer N is <<N>>.*)
(***************************************************************************)
EXTENDS Integers, Sequences, FiniteSets

\* ---- bounds of the model ------------------------------------------------
MaxHeight == 2
MaxWidth == 2
MaxWait == 2
MaxTick == 3
TicksPerSec == 2

\* ---- program constants --------------------------------------------------
StableTimeout == 10
ConfirmDelay == 2
PollInterval == 1
DefaultDelay == 3
Margin == 100
InitWidth == 1920
InitHeight == 1080

None == <<>>
Heights == 0..MaxHeight
Widths == 1..MaxWidth
Ticks == 0..MaxTick
URLs == {"http://a", "http://b"}
OutputDirs == {"snapshotFile", "out"}
WaitTimes == {None} \cup {<<n>> : n \in 0..MaxWait}
Outcomes == {"ok", "timeout", "error"}

\* The steps of capture_screenshot, in program order.
NavPhases == {"navigate", "waitBody"}
BestEffortPhases == {"scroll", "stable", "images", "dynamic"}
FinalPhases == {"delay", "measure", "resize", "screenshot", "json"}
LaterPhases == BestEffortPhases \cup FinalPhases

VARIABLES
  pc,                     \* position in main()
  url, output_dir, wait_time,          \* command-line arguments
  session, quitCalls,     \* browser session: "none" | "open" | "closed"; calls of driver.quit
  windowSize,             \* <<width, height>> last passed to set_window_size, or None
  current_url,            \* driver.current_url
  last_height,            \* local of scroll_to_bottom, then of wait_for_content_stable
  elapsed,                \* time.time() - start_time in wait_for_content_stable
  content_stable, dynamic_content_loaded,
  slept,                  \* the time.sleep calls of the extra-delay step: <<>> or <<seconds>>
  total_height, viewport_width,
  timestamp,              \* <<formatted timestamp>>, None before it is taken
  files,                  \* paths present in the output directory
  json_data,              \* <<record dumped to the JSON file>>, None before it
  result,                 \* return value of capture_screenshot: None or <<png path, json path>>
  log,                    \* error logged by capture_screenshot: "none" | "timeout" | "generic"
  executed,               \* history: steps of the capture that were started
  raised,                 \* history: <<step, exception>> for every exception raised
  failedAt, failExc,      \* history: step and exception that ended the capture
  samples                 \* history: the last two heights sampled by the stability poll

vars == <<pc, url, output_dir, wait_time, session, quitCalls, windowSize,
          current_url, last_height, elapsed, content_stable,
          dynamic_content_loaded, slept, total_height, viewport_width,
          timestamp, files, json_data, result, log, executed, raised,
          failedAt, failExc, samples>>

argv == <<url, output_dir, wait_time>>
driverv == <<session, quitCalls, windowSize, current_url>>
pollv == <<last_height, elapsed, content_stable, samples>>
sizev == <<total_height, viewport_width>>
outv == <<timestamp, files, json_data>>
tracev == <<result, log, raised, failedAt, failExc>>

Init ==
  /\ pc = "chrome"
  /\ url \in URLs
  /\ output_dir \in OutputDirs
  /\ wait_time \in WaitTimes
  /\ session = "none"
  /\ quitCalls = 0
  /\ windowSize = None
  /\ current_url = "about:blank"
  /\ last_height = 0
  /\ elapsed = 0
  /\ content_stable = FALSE
  /\ dynamic_content_loaded = FALSE
  /\ slept = None
  /\ total_height = 0
  /\ viewport_width = 0
  /\ timestamp = None
  /\ files = {}
  /\ json_data = None
  /\ result = None
  /\ log = "none"
  /\ executed = {}
  /\ raised = {}
  /\ failedAt = "none"
  /\ failExc = "none"
  /\ samples = <<>>

\* ---- pure helpers ---------------------------------------------------------

\* datetime.now().strftime('%Y%m%d_%H%M%S'): the clock reading cut to whole seconds.
Strftime(t) == t \div TicksPerSec

\* f"snapshot_{timestamp}"
Filename(ts) == <<"snapshot", ts>>

\* os.path.join(self.output_dir, f"{filename}.<ext>")
PathJoin(dir, name, ext) == <<dir, name, ext>>

\* The two except clauses of capture_screenshot: which error is logged.
ExceptLog(exc) == IF exc = "timeout" THEN "timeout" ELSE "generic"

\* ---- control-flow helpers of capture_screenshot ---------------------------

\* The step returned normally: go on with the next statement.
Continue(phase, next) ==
  /\ pc' = next
  /\ executed' = executed \cup {phase}
  /\ UNCHANGED tracev

\* The step raised exc and nothing below capture_screenshot caught it:
\* the except clauses log it and return None.
Abort(phase, exc) ==
  /\ pc' = "print"
  /\ executed' = executed \cup {phase}
  /\ raised' = raised \cup {<<phase, exc>>}
  /\ failedAt' = phase
  /\ failExc' = exc
  /\ log' = ExceptLog(exc)
  /\ result' = None

\* The step raised exc and the helper method caught it itself.
Caught(phase, exc, next) ==
  /\ pc' = next
  /\ executed' = executed \cup {phase}
  /\ raised' = raised \cup {<<phase, exc>>}
  /\ UNCHANGED <<result, log, failedAt, failExc>>

\* ---- WebSnapshot.__init__ / setup_driver ----------------------------------

\* self.driver = webdriver.Chrome(options=chrome_options)
SetupDriverChrome ==
  /\ pc = "chrome"
  /\ \E o \in {"ok", "error"} :
       IF o = "ok"
         THEN /\ session' = "open"
              /\ pc' = "initSize"
         ELSE /\ session' = session
              /\ pc' = "crashed"
  /\ UNCHANGED <<argv, quitCalls, windowSize, current_url, pollv,
                 dynamic_content_loaded, slept, sizev, outv, tracev, executed>>

\* self.driver.set_window_size(1920, 1080); an exception leaves __init__ and
\* main(), whose try block has not been entered yet.
SetupDriverResize ==
  /\ pc = "initSize"
  /\ \E o \in {"ok", "error"} :
       IF o = "ok"
         THEN /\ windowSize' = <<InitWidth, InitHeight>>
              /\ pc' = "navigate"
         ELSE /\ windowSize' = windowSize
              /\ pc' = "crashed"
  /\ UNCHANGED <<argv, session, quitCalls, current_url, pollv,
                 dynamic_content_loaded, slept, sizev, outv, tracev, executed>>

\* ---- capture_screenshot: navigation ---------------------------------------

\* self.driver.get(url)
Navigate ==
  /\ pc = "navigate"
  /\ \E o \in Outcomes, r \in URLs :
       IF o = "ok"
         THEN /\ current_url' = r
              /\ Continue("navigate", "waitBody")
         ELSE /\ current_url' = current_url
              /\ Abort("navigate", o)
  /\ UNCHANGED <<argv, session, quitCalls, windowSize, pollv,
                 dynamic_content_loaded, slept, sizev, outv>>

\* WebDriverWait(self.driver, 10).until(presence_of_element_located(body))
WaitBodySwallowsTimeout ==
  /\ pc = "waitBody"
  /\ \E o \in Outcomes :
       CASE o = "ok" -> Continue("waitBody", "scrollStart")
         [] o = "timeout" -> Caught("waitBody", o, "scrollStart")
         [] OTHER -> Abort("waitBody", o)
  /\ UNCHANGED <<argv, driverv, pollv, dynamic_content_loaded, slept, sizev, outv>>

WaitBody ==
  /\ pc = "waitBody"
  /\ \E o \in Outcomes :
       IF o = "ok"
         THEN Continue("waitBody", "scrollStart")
         ELSE Abort("waitBody", o)
  /\ UNCHANGED <<argv, driverv, pollv, dynamic_content_loaded, slept, sizev, outv>>

\* ---- scroll_to_bottom ------------------------------------------------------

\* last_height = execute_script("return document.body.scrollHeight")
ScrollStart ==
  /\ pc = "scrollStart"
  /\ \E o \in Outcomes, h \in Heights :
       IF o = "ok"
         THEN /\ last_height' = h
              /\ Continue("scroll", "scrollPass")
         ELSE /\ last_height' = last_height
              /\ Abort("scroll", o)
  /\ UNCHANGED <<argv, driverv, elapsed, content_stable, samples,
                 dynamic_content_loaded, slept, sizev, outv>>

\* One pass of the while True loop: nine partial scrolls, the scroll to the
\* bottom, and the new measurement new_height.  The loop is left only when
\* new_height == last_height.
ScrollPass ==
  /\ pc = "scrollPass"
  /\ \E o \in Outcomes, new_height \in Heights :
       IF o = "ok"
         THEN IF new_height = last_height
                THEN /\ last_height' = last_height
                     /\ Continue("scroll", "scrollTop")
                ELSE /\ last_height' = new_height
                     /\ Continue("scroll", "scrollPass")
         ELSE /\ last_height' = last_height
              /\ Abort("scroll", o)
  /\ UNCHANGED <<argv, driverv, elapsed, content_stable, samples,
                 dynamic_content_loaded, slept, sizev, outv>>

\* execute_script("window.scrollTo(0, 0);"), then capture_screenshot calls
\* wait_for_content_stable, which starts with start_time = time.time() and
\* last_height = 0.
ScrollTop ==
  /\ pc = "scrollTop"
  /\ \E o \in Outcomes :
       IF o = "ok"
         THEN /\ last_height' = 0
              /\ elapsed' = 0
              /\ Continue("scroll", "stable")
         ELSE /\ last_height' = last_height
              /\ elapsed' = elapsed
              /\ Abort("scroll", o)
  /\ UNCHANGED <<argv, driverv, content_stable, samples,
                 dynamic_content_loaded, slept, sizev, outv>>

\* ---- wait_for_content_stable ----------------------------------------------

\* The history of samples keeps the last two.
Sampled(h) == IF Len(samples) < 2 THEN Append(samples, h) ELSE <<samples[2], h>>

\* One evaluation of the while condition and, when it holds, one loop body.
StablePoll ==
  /\ pc = "stable"
  /\ IF elapsed < StableTimeout
       THEN \E o \in Outcomes, current_height \in Heights :
              IF o = "ok"
                THEN /\ samples' = Sampled(current_height)
                     /\ IF current_height = last_height
                          THEN /\ elapsed' = elapsed + ConfirmDelay
                               /\ content_stable' = TRUE
                               /\ last_height' = last_height
                               /\ Continue("stable", "images")
                          ELSE /\ elapsed' = elapsed + PollInterval
                               /\ last_height' = current_height
                               /\ content_stable' = content_stable
                               /\ Continue("stable", "stable")
                ELSE /\ UNCHANGED pollv
                     /\ Abort("stable", o)
       ELSE /\ content_stable' = FALSE
            /\ UNCHANGED <<last_height, elapsed, samples>>
            /\ Continue("stable", "images")
  /\ UNCHANGED <<argv, driverv, dynamic_content_loaded, slept, sizev, outv>>

\* ---- wait_for_images --------------------------------------------------------

\* WebDriverWait(10).until(all images complete); only TimeoutException is caught.
\* wait_for_content_stable has returned: its frame (last_height, start_time and
\* the history of its samples) is gone, only content_stable is kept.
WaitImages ==
  /\ pc = "images"
  /\ \E o \in Outcomes :
       CASE o = "ok" -> Continue("images", "dynamic")
         [] o = "timeout" -> Caught("images", o, "dynamic")
         [] OTHER -> Abort("images", o)
  /\ last_height' = 0
  /\ elapsed' = 0
  /\ samples' = <<>>
  /\ UNCHANGED <<argv, driverv, content_stable, dynamic_content_loaded, slept,
                 sizev, outv>>

\* ---- wait_for_dynamic_content -----------------------------------------------

\* The AJAX wait and the MutationObserver script; every exception is caught and
\* gives False.  changes is the number of DOM mutations the observer counted.
WaitDynamic ==
  /\ pc = "dynamic"
  /\ \E o \in Outcomes, changes \in 0..1 :
       IF o = "ok"
         THEN /\ dynamic_content_loaded' = (changes = 0)
              /\ Continue("dynamic", "delay")
         ELSE /\ dynamic_content_loaded' = FALSE
              /\ Caught("dynamic", o, "delay")
  /\ UNCHANGED <<argv, driverv, pollv, slept, sizev, outv>>

\* ---- capture_screenshot: extra delay, measurement, resize -----------------

\* if self.wait_time is not None or not (content_stable and dynamic_content_loaded):
\*     wait_time = self.wait_time if self.wait_time is not None else 3
\*     time.sleep(wait_time)
\* The sequence of time.sleep arguments of the step.
ExtraSleepsTruthy(wt, cs, dl) ==
  IF (wt # None /\ wt[1] # 0) \/ ~(cs /\ dl)
    THEN <<IF wt # None /\ wt[1] # 0 THEN wt[1] ELSE DefaultDelay>>
    ELSE <<>>

ExtraSleeps(wt, cs, dl) ==
  IF wt # None \/ ~(cs /\ dl)
    THEN <<IF wt # None THEN wt[1] ELSE DefaultDelay>>
    ELSE <<>>

ExtraDelay ==
  /\ pc = "delay"
  /\ slept' = ExtraSleeps(wait_time, content_stable, dynamic_content_loaded)
  /\ Continue("delay", "measure")
  /\ UNCHANGED <<argv, driverv, pollv, dynamic_content_loaded, sizev, outv>>

\* total_height and viewport_width: two execute_script calls, each the maximum
\* of five DOM metrics as the browser reports them.
Measure ==
  /\ pc = "measure"
  /\ \E o \in Outcomes, h \in Heights, w \in Widths :
       IF o = "ok"
         THEN /\ total_height' = h
              /\ viewport_width' = w
              /\ Continue("measure", "resize")
         ELSE /\ UNCHANGED sizev
              /\ Abort("measure", o)
  /\ UNCHANGED <<argv, driverv, pollv, dynamic_content_loaded, slept, outv>>

\* The arguments of set_window_size(viewport_width + 100, total_height + 100).
WindowForSwapped(w, h) == <<h + Margin, w + Margin>>

WindowFor(w, h) == <<w + Margin, h + Margin>>

Resize ==
  /\ pc = "resize"
  /\ \E o \in Outcomes :
       IF o = "ok"
         THEN /\ windowSize' = WindowFor(viewport_width, total_height)
              /\ Continue("resize", "screenshot")
         ELSE /\ windowSize' = windowSize
              /\ Abort("resize", o)
  /\ UNCHANGED <<argv, session, quitCalls, current_url, pollv,
                 dynamic_content_loaded, slept, sizev, outv>>

\* ---- capture_screenshot: the two output files -----------------------------

\* timestamp = datetime.now().strftime(...); save_screenshot(screenshot_path).
\* t is the clock reading.
Screenshot ==
  /\ pc = "screenshot"
  /\ \E o \in Outcomes, t \in Ticks :
       /\ timestamp' = <<Strftime(t)>>
       /\ IF o = "ok"
            THEN /\ files' = files \cup
                       {PathJoin(output_dir, Filename(Strftime(t)), "png")}
                 /\ Continue("screenshot", "json")
            ELSE /\ files' = files
                 /\ Abort("screenshot", o)
  /\ UNCHANGED <<argv, driverv, pollv, dynamic_content_loaded, slept, sizev,
                 json_data>>

\* The dictionary json_data of capture_screenshot; cur is driver.current_url.
JsonDataCurrentUrl(u, ts, w, h, cur) ==
  [url |-> cur, timestamp |-> ts,
   dimensions |-> [width |-> w, height |-> h],
   metadata |-> [url |-> cur]]

JsonData(u, ts, w, h, cur) ==
  [url |-> u, timestamp |-> ts,
   dimensions |-> [width |-> w, height |-> h],
   metadata |-> [url |-> cur]]

\* Building json_data reads driver.title, driver.current_url and the user agent
\* (outcome o); then open(json_path, 'w') and json.dump (outcome w; created
\* tells whether open() had created the file when the write failed).
WriteJson ==
  /\ pc = "json"
  /\ LET ts == timestamp[1]
         screenshot_path == PathJoin(output_dir, Filename(ts), "png")
         json_path == PathJoin(output_dir, Filename(ts), "json")
     IN \E o \in Outcomes, w \in {"ok", "error"}, created \in BOOLEAN :
          IF o # "ok"
            THEN /\ Abort("json", o)
                 /\ UNCHANGED <<files, json_data>>
            ELSE IF w # "ok"
              THEN /\ Abort("json", w)
                   /\ files' = IF created THEN files \cup {json_path} ELSE files
                   /\ json_data' = json_data
              ELSE /\ json_data' = <<JsonData(url, ts, viewport_width,
                                               total_height, current_url)>>
                   /\ files' = files \cup {json_path}
                   /\ result' = <<screenshot_path, json_path>>
                   /\ pc' = "print"
                   /\ executed' = executed \cup {"json"}
                   /\ UNCHANGED <<log, raised, failedAt, failExc>>
  /\ UNCHANGED <<argv, driverv, pollv, dynamic_content_loaded, slept, sizev,
                 timestamp>>

\* ---- main(): after capture_screenshot returned ----------------------------

\* if result: print(success) else: print("Failed to capture screenshot")
PrintResult ==
  /\ pc = "print"
  /\ pc' = "close"
  /\ UNCHANGED <<argv, driverv, pollv, dynamic_content_loaded, slept, sizev,
                 outv, tracev, executed>>

\* finally: snapshot.close(): self.driver.quit(), which may itself raise.
Close ==
  /\ pc = "close"
  /\ quitCalls' = quitCalls + 1
  /\ \E o \in {"ok", "error"} :
       IF o = "ok"
         THEN /\ session' = "closed"
              /\ pc' = "done"
         ELSE /\ session' = session
              /\ pc' = "crashed"
  /\ UNCHANGED <<argv, windowSize, current_url, pollv, dynamic_content_loaded,
                 slept, sizev, outv, tracev, executed>>

Next ==
  \/ SetupDriverChrome
  \/ SetupDriverResize
  \/ Navigate
  \/ WaitBody
  \/ ScrollStart
  \/ ScrollPass
  \/ ScrollTop
  \/ StablePoll
  \/ WaitImages
  \/ WaitDynamic
  \/ ExtraDelay
  \/ Measure
  \/ Resize
  \/ Screenshot
  \/ WriteJson
  \/ PrintResult
  \/ Close

Spec == Init /\ [][Next]_vars

\* The program is one thread that always takes its next step.
FairSpec == Init /\ [][Next]_vars /\ WF_vars(Next)

\* ---- properties -------------------------------------------------------------

\* capture_screenshot has returned to main().
CaptureReturned ==
  \/ pc \in {"print", "close", "done"}
  \/ pc = "crashed" /\ quitCalls = 1

Pngs == {f \in files : f[3] = "png"}
Jsons == {f \in files : f[3] = "json"}
RaisedIn(phases) == \E r \in raised : r[1] \in phases
NavTimedOut == \E p \in NavPhases : <<p, "timeout">> \in raised
DelaySlept == IF slept = <<>> THEN 0 ELSE slept[1]

\* C1: when capture_screenshot has returned, the output directory holds both
\* files of the PNG/JSON pair or neither, and a run that returned None has
\* written no file.
C1_PairWrittenTogether ==
  CaptureReturned =>
    /\ (Pngs = {}) <=> (Jsons = {})
    /\ result = None => files = {}

\* C2: an exception or timeout raised in the scroll, height-stability,
\* image-wait or dynamic-content phase never ends the capture: the capture
\* still reaches the extra delay.
C2_BestEffortPhasesNonFatal ==
  /\ failedAt \notin BestEffortPhases
  /\ (CaptureReturned /\ RaisedIn(BestEffortPhases)) => "delay" \in executed

\* C3: the progressive-scroll loop always exits after finitely many passes.
C3_ScrollLoopTerminates == [](pc = "scrollPass" => <>(pc # "scrollPass"))

\* C4: when the navigation or the wait for the body element timed out,
\* capture_screenshot has returned None, no later phase was executed and the
\* output directory is empty.
C4_NavTimeoutFailsFast ==
  NavTimedOut =>
    /\ CaptureReturned
    /\ result = None
    /\ executed \cap LaterPhases = {}
    /\ files = {}

C4_Witness == <<"waitBody", "timeout">> \in raised /\ pc = "done"

\* C5: once the extra-delay step has run, the seconds slept there are N when
\* wait_time was given as N, otherwise 3 when one of the two checks returned
\* not-stable, otherwise 0.
C5_ExtraDelay ==
  "delay" \in executed =>
    DelaySlept = IF wait_time # None THEN wait_time[1]
                 ELSE IF ~content_stable \/ ~dynamic_content_loaded
                        THEN DefaultDelay
                        ELSE 0

C5_Witness ==
  /\ "delay" \in executed
  /\ wait_time = <<0>>
  /\ ~content_stable

\* C7: once the screenshot is saved the window size last set is the measured
\* (width + 100, height + 100), and a successful capture wrote that width and
\* height as the JSON dimensions.
C7_WindowIsDimensionsPlusMargin ==
  /\ Pngs # {} =>
       windowSize = <<viewport_width + Margin, total_height + Margin>>
  /\ result # None =>
       /\ windowSize[1] = json_data[1].dimensions.width + Margin
       /\ windowSize[2] = json_data[1].dimensions.height + Margin

C7_Witness ==
  /\ result # None
  /\ pc = "done"
  /\ json_data[1].dimensions.width # json_data[1].dimensions.height

\* C8: a successful capture returns <outputDir>/snapshot_<timestamp>.png and
\* .json with one stem, and the JSON holds the URL passed in and the timestamp
\* of the stem.
C8_PathsAndJsonRoundTrip ==
  result # None =>
    LET j == json_data[1] IN
      /\ result[1] = <<output_dir, <<"snapshot", j.timestamp>>, "png">>
      /\ result[2] = <<output_dir, <<"snapshot", j.timestamp>>, "json">>
      /\ j.url = url
      /\ {result[1], result[2]} \subseteq files

C8_Witness ==
  /\ result # None
  /\ current_url # url
  /\ pc = "done"

\* C6: when main() has ended with the browser session opened, driver.quit was
\* called exactly once.
C6_SessionReleased ==
  (pc \in {"done", "crashed"} /\ session # "none") => quitCalls = 1

\* C9: when wait_for_content_stable has returned, it returned True exactly when
\* the last two samples of the poll were equal, and it took at most the timeout
\* plus the confirmation delay.
C9_StableOnlyOnTwoEqualSamples ==
  pc = "images" =>
    /\ content_stable <=> (Len(samples) = 2 /\ samples[1] = samples[2])
    /\ elapsed <= StableTimeout + ConfirmDelay

\* C10: the timeout error is logged only when the navigation or the wait for
\* the body element failed, and a failure of any later step is logged as the
\* generic error.
C10_TimeoutLogOnlyForNavigation ==
  /\ log = "timeout" => failedAt \in NavPhases
  /\ failedAt \in LaterPhases => log = "generic"

====
